---- MODULE Spec2Model ----
(***************************************************************************)
(* zapfmt: a wrapper around go.uber.org/zap that carries a logger in a     *)
(* context.Context, renders records with a key-value encoder and lets a    *)
(* derived logger be bound to a level of its own.                          *)
(*                                                                         *)
(* The model keeps a heap of level holders (zap.AtomicLevel), a heap of    *)
(* logger facades (the *logger of logger.go, each holding a *zap.Logger by *)
(* value, as zap never mutates a logger it has returned), a heap of        *)
(* context values (context.WithValue nodes), the package variable          *)
(* DefaultLogger, the CheckedEntry handed out by Check, the state of the   *)
(* process (running, panicking, exited), and, as the test harness captures *)
(* it, what the operation just performed wrote to standard error.  Emits   *)
(* made by several goroutines at once are modelled step by step, with the  *)
(* locks between them and standard error.                                  *)
(***************************************************************************)
EXTENDS Integers, Sequences, FiniteSets, TLC

VARIABLES holders, loggers, hist, ctxs, defaultLogger, out, ce, status, last,
          threads, sink, mutex, fdmutex

\* The goroutines that emit concurrently, the bytes standard error has
\* received from them, and the locks on the way to it.
conc == <<threads, sink, mutex, fdmutex>>

vars == <<holders, loggers, hist, ctxs, defaultLogger, out, ce, status, last,
          conc>>

(***************************************************************************)
(* Bounds of the model.                                                    *)
(***************************************************************************)
\* Facades the heap holds at most, and at most in the specifications that
\* need no chain of three derivations.
MaxLoggers == 5
MaxFacades == 4
MaxCtxs == 3
\* Goroutines that emit concurrently, and emits they start in all.
NumThreads == 2
MaxEmits == 3

(***************************************************************************)
(* zapcore.Level.                                                          *)
(***************************************************************************)
DebugLevel == -1
InfoLevel == 0
WarnLevel == 1
ErrorLevel == 2
DPanicLevel == 3
PanicLevel == 4
FatalLevel == 5

Levels == DebugLevel..FatalLevel

\* LevelName with a fault: zapcore.CapitalLevelEncoder is configured.
LevelNameCapital(l) ==
    CASE l = DebugLevel -> "DEBUG"
      [] l = InfoLevel -> "INFO"
      [] l = WarnLevel -> "WARN"
      [] l = ErrorLevel -> "ERROR"
      [] l = DPanicLevel -> "DPANIC"
      [] l = PanicLevel -> "PANIC"
      [] l = FatalLevel -> "FATAL"

\* zapcore.LowercaseLevelEncoder
LevelName(l) ==
    CASE l = DebugLevel -> "debug"
      [] l = InfoLevel -> "info"
      [] l = WarnLevel -> "warn"
      [] l = ErrorLevel -> "error"
      [] l = DPanicLevel -> "dpanic"
      [] l = PanicLevel -> "panic"
      [] l = FatalLevel -> "fatal"

\* The nil of Go: no logger, no CheckedEntry, no value in a context.
Nil == 0

\* context.Background()
Background == 0

\* The zap.AtomicLevel the application creates and hands to
\* NewProductionLogger: the shared holder.
SharedHolder == 1

\* A zapcore.Level above every level of a record: a holder at this level
\* lets nothing pass.  It is also the addStack of a logger built without
\* zap.AddStacktrace.
AboveFatal == FatalLevel + 1
NoStack == AboveFatal

Last(s) == s[Len(s)]

(***************************************************************************)
(* Inputs.                                                                 *)
(***************************************************************************)
\* The segments given to Named on a facade, the empty segment among them,
\* and two fields.
Segments == {"", "a"}
F1 == <<"k1", "v1">>
F2 == <<"k2", "v2">>
\* The levels written to the shared holder (which starts at ErrorLevel) and
\* the levels given to WithLevel: below, at and above the levels between.
SetLevels == {DebugLevel, InfoLevel, FatalLevel}
WithLevels == {DebugLevel, InfoLevel, FatalLevel}

(***************************************************************************)
(* zapcore.Core: the core of a production logger writes to standard error  *)
(* through the key-value encoder, the core of zap.NewNop() discards; a     *)
(* core accumulates the fields of With, and wrapCoreWithLevel wraps it     *)
(* with a level holder, outermost wrapper last in wraps.                   *)
(***************************************************************************)
NopCore == [base |-> "nop", level |-> NoStack, fields |-> <<>>, wraps |-> <<>>]

newZapCoreAtLevel(lvl) ==
    [base |-> "io", level |-> lvl, fields |-> <<>>, wraps |-> <<>>]

\* zap.NewNop()
NewNop ==
    [core |-> NopCore, name |-> "", callerSkip |-> 0, addCaller |-> FALSE,
     addStack |-> NoStack, development |-> FALSE]

\* The option wrapCoreWithLevel(lvl) applied to a logger: zap.WrapCore
\* replaces the core by the wrapper around it, bound to the holder h.
wrapCoreWithLevel(h, zl) == [zl EXCEPT !.core.wraps = Append(@, h)]

\* zap.New(zapCore, zap.AddCaller(), zap.AddCallerSkip(1),
\*         zap.AddStacktrace(zap.ErrorLevel), wrapCoreWithLevel(lvl))
ZapNew(h) ==
    wrapCoreWithLevel(h,
        [core |-> newZapCoreAtLevel(DebugLevel), name |-> "", callerSkip |-> 1,
         addCaller |-> TRUE, addStack |-> ErrorLevel, development |-> FALSE])

\* CoreEnabled with a fault: the thresholds of nested wrappers stack, a record
\* has to pass every holder of the chain.
CoreEnabledStacked(core, hs, r) ==
    /\ core.base = "io" => r >= core.level
    /\ core.wraps # <<>> \/ core.base = "io"
    /\ \A i \in 1..Len(core.wraps) : r >= hs[core.wraps[i]]

\* CoreEnabled with a fault: the decision compares the wrong way round and
\* lets pass what is below the threshold too.
CoreEnabledAlways(core, hs, r) == core.wraps # <<>> \/ core.base = "io"

\* The emit decision of a core, read at decision time from the holder of the
\* outermost wrapper; an unwrapped core decides by its own level (NopCore:
\* never).
CoreEnabled(core, hs, r) ==
    IF core.wraps = <<>>
    THEN core.base = "io" /\ r >= core.level
    ELSE r >= hs[Last(core.wraps)]

\* The level a logger accepts from, read now.
Threshold(zl, hs) ==
    IF zl.core.wraps = <<>> THEN zl.core.level ELSE hs[Last(zl.core.wraps)]

Max(a, b) == IF a >= b THEN a ELSE b

\* CoreWith with a fault: the new fields are put before the fields the core has.
CoreWithPrepend(core, fs) ==
    IF core.base = "nop" THEN core ELSE [core EXCEPT !.fields = fs \o @]

\* Core.With(fields): NopCore returns itself, the writing core appends the
\* fields to its encoder; the wrapper keeps its holder.
CoreWith(core, fs) ==
    IF core.base = "nop" THEN core ELSE [core EXCEPT !.fields = @ \o fs]

(***************************************************************************)
(* zap.Logger, by value.                                                   *)
(***************************************************************************)
\* ZapNamed with a fault: the name is replaced by the new segment.
ZapNamedReplace(zl, s) ==
    IF s = "" THEN zl ELSE [zl EXCEPT !.name = s]

\* (*zap.Logger).Named
ZapNamed(zl, s) ==
    IF s = "" THEN zl
    ELSE IF zl.name = "" THEN [zl EXCEPT !.name = s]
    ELSE [zl EXCEPT !.name = zl.name \o "." \o s]

\* (*zap.Logger).With
ZapWith(zl, fs) ==
    IF Len(fs) = 0 THEN zl ELSE [zl EXCEPT !.core = CoreWith(@, fs)]

\* The frame zap reports as the caller: the frames above zap's own, nearest
\* first, are those of the call path; callerSkip of them are skipped.
CallPath(via) ==
    CASE via = "context" -> <<"zapfmt/context.go", "app", "app-caller">>
      [] via = "sugar" -> <<"zap/sugar.go", "zap/sugar.go", "app", "app-caller">>
      [] via = "sugar-context" -> <<"zap/sugar.go", "zap/sugar.go", "app", "app-caller">>
      [] OTHER -> <<"app", "app-caller">>

CallerFrame(via, skip) ==
    IF skip + 1 <= Len(CallPath(via)) THEN CallPath(via)[skip + 1] ELSE "runtime"

\* No CheckedEntry: the nil *zapcore.CheckedEntry.
NilEntry == [ok |-> FALSE]

\* The action a CheckedEntry takes after writing (zapcore.CheckWriteAction).
Should(zl, r) ==
    CASE r = PanicLevel -> "panic"
      [] r = FatalLevel -> "fatal"
      [] r = DPanicLevel /\ zl.development -> "panic"
      [] OTHER -> "noop"

\* ZapCheck with a fault: the level is compared with > and a record at the
\* threshold itself is dropped.
ZapCheckStrict(zl, hs, r, msg, via) ==
    LET willWrite == zl.core.wraps # <<>> /\ r > Threshold(zl, hs)
        should == Should(zl, r)
    IN  IF ~willWrite /\ should = "noop" THEN NilEntry
        ELSE [ok |-> TRUE, level |-> r, name |-> zl.name, msg |-> msg,
              caller |-> IF willWrite /\ zl.addCaller
                         THEN CallerFrame(via, zl.callerSkip) ELSE "",
              stack |-> willWrite /\ r >= zl.addStack,
              cores |-> IF willWrite THEN <<zl.core>> ELSE <<>>,
              should |-> should]

\* ZapCheck with a fault: no entry at all for a level that is not enabled.
ZapCheckDropDisabled(zl, hs, r, msg, via) ==
    IF ~CoreEnabled(zl.core, hs, r) THEN NilEntry
    ELSE [ok |-> TRUE, level |-> r, name |-> zl.name, msg |-> msg,
          caller |-> IF zl.addCaller THEN CallerFrame(via, zl.callerSkip) ELSE "",
          stack |-> r >= zl.addStack,
          cores |-> <<zl.core>>,
          should |-> Should(zl, r)]

\* (*zap.Logger).check: the core decides whether the entry is written; Panic
\* and Fatal entries get their action whether written or not.
ZapCheck(zl, hs, r, msg, via) ==
    LET willWrite == CoreEnabled(zl.core, hs, r)
        should == Should(zl, r)
    IN  IF ~willWrite /\ should = "noop" THEN NilEntry
        ELSE [ok |-> TRUE, level |-> r, name |-> zl.name, msg |-> msg,
              caller |-> IF willWrite /\ zl.addCaller
                         THEN CallerFrame(via, zl.callerSkip) ELSE "",
              stack |-> willWrite /\ r >= zl.addStack,
              cores |-> IF willWrite THEN <<zl.core>> ELSE <<>>,
              should |-> should]

(***************************************************************************)
(* The key-value encoder: one line per record, as a sequence of bracketed  *)
(* segments <<key, value>>.                                                *)
(***************************************************************************)
Timestamp == "2019-04-08T20:21:32.375067Z"

EncodeEntry(ent, fields) ==
    <<  <<"ts", Timestamp>>, <<"level", LevelName(ent.level)>> >>
    \o (IF ent.name # "" THEN << <<"logger", ent.name>> >> ELSE <<>>)
    \o (IF ent.caller # "" THEN << <<"caller", ent.caller>> >> ELSE <<>>)
    \o << <<"msg", ent.msg>> >>
    \o fields
    \o (IF ent.stack THEN << <<"stacktrace", "trace">> >> ELSE <<>>)

\* CoreWrite with a fault: the fields of the call are not encoded.
CoreWriteOwnFields(core, ent, fs) ==
    IF core.base = "io" THEN <<EncodeEntry(ent, core.fields)>> ELSE <<>>

\* Core.Write of one core: the writing core encodes the entry with its own
\* fields followed by the fields of the call, NopCore writes nothing.
CoreWrite(core, ent, fs) ==
    IF core.base = "io" THEN <<EncodeEntry(ent, core.fields \o fs)>> ELSE <<>>

\* (*zapcore.CheckedEntry).Write: the lines written, core by core.
RECURSIVE WriteCores(_, _, _)
WriteCores(cores, ent, fs) ==
    IF cores = <<>> THEN <<>>
    ELSE CoreWrite(cores[1], ent, fs) \o WriteCores(Tail(cores), ent, fs)

(***************************************************************************)
(* The facade of logger.go: type logger struct{ *zap.Logger }.  A heap     *)
(* entry is the zap.Logger the facade holds.                               *)
(***************************************************************************)
\* DefaultLogger = &logger{Logger: zap.NewNop()}
DefaultLoggerInit == NewNop

\* NewProductionLogger with a fault: zap.AddStacktrace(zap.PanicLevel).
NewProductionLoggerStackAtPanic(h) == [ZapNew(h) EXCEPT !.addStack = PanicLevel]

\* NewProductionLogger with a fault: the option zap.Development() is given.
NewProductionLoggerDevelopment(h) == [ZapNew(h) EXCEPT !.development = TRUE]

\* NewProductionLogger with a fault: the option wrapCoreWithLevel(lvl) is left
\* out, the core decides by the level it was built with.
NewProductionLoggerUnwrapped(h) ==
    [core |-> newZapCoreAtLevel(DebugLevel), name |-> "", callerSkip |-> 1,
     addCaller |-> TRUE, addStack |-> ErrorLevel, development |-> FALSE]

\* NewProductionLogger(lvl)
NewProductionLogger(h) == ZapNew(h)

\* logger_WithLevel with a fault: the child's level is not below the level the
\* parent accepts from.
logger_WithLevelClamped(ls, hs, l, level) ==
    [loggers |-> Append(ls, wrapCoreWithLevel(Len(hs) + 1, ls[l])),
     holders |-> Append(hs, Max(level, Threshold(ls[l], hs)))]

\* logger_WithLevel with a fault: the child is built anew with zap.New and
\* not from the parent's zap.Logger.
logger_WithLevelFresh(ls, hs, l, level) ==
    [loggers |-> Append(ls, ZapNew(Len(hs) + 1)),
     holders |-> Append(hs, level)]

\* logger_WithLevel with a fault: the option is applied to the parent's
\* zap.Logger itself, not to a clone.
logger_WithLevelInPlace(ls, hs, l, level) ==
    [loggers |-> Append([ls EXCEPT ![l] = wrapCoreWithLevel(Len(hs) + 1, ls[l])],
                        wrapCoreWithLevel(Len(hs) + 1, ls[l])),
     holders |-> Append(hs, level)]

\* logger_WithLevel with a fault: the new level is stored into the holder the
\* parent is bound to, and the child shares that holder.
logger_WithLevelShared(ls, hs, l, level) ==
    IF ls[l].core.wraps = <<>>
    THEN [loggers |-> Append(ls, wrapCoreWithLevel(Len(hs) + 1, ls[l])),
          holders |-> Append(hs, level)]
    ELSE [loggers |-> Append(ls, ls[l]),
          holders |-> [hs EXCEPT ![Last(ls[l].core.wraps)] = level]]

\* (l *logger) WithLevel(level): a new AtomicLevel at level, and a child of
\* l's zap.Logger with its core wrapped with it.
logger_WithLevel(ls, hs, l, level) ==
    [loggers |-> Append(ls, wrapCoreWithLevel(Len(hs) + 1, ls[l])),
     holders |-> Append(hs, level)]

\* logger_With with a fault: the fields are added to the parent's logger as
\* well as to the child's.
logger_WithInPlace(ls, l, fs) ==
    Append([ls EXCEPT ![l] = ZapWith(ls[l], fs)], ZapWith(ls[l], fs))

\* logger_With with a fault: the fields are not passed on to zap.
logger_WithNoFields(ls, l, fs) == Append(ls, ls[l])

\* (l *logger) With(fields...)
logger_With(ls, l, fs) == Append(ls, ZapWith(ls[l], fs))

\* logger_Named with a fault: the child's core is wrapped again with the
\* shared holder.
logger_NamedRewrapped(ls, l, s) ==
    Append(ls, wrapCoreWithLevel(SharedHolder, ZapNamed(ls[l], s)))

\* (l *logger) Named(s)
logger_Named(ls, l, s) == Append(ls, ZapNamed(ls[l], s))

(***************************************************************************)
(* context.Context: a chain of WithValue nodes above Background.           *)
(***************************************************************************)
contextKeyLogger == "zap-logger"
otherKey == "request-id"

RECURSIVE Value(_, _, _)
Value(cs, c, key) ==
    IF c = Background THEN Nil
    ELSE IF cs[c].key = key THEN cs[c].val
    ELSE Value(cs, cs[c].parent, key)

WithValue(cs, c, key, val) == Append(cs, [parent |-> c, key |-> key, val |-> val])

\* getLogger with a fault: no fallback, the failed lookup is returned as is.
getLoggerNoFallback(cs, dl, c) == Value(cs, c, contextKeyLogger)

\* getLogger with a fault: the fallback is the logger DefaultLogger held when
\* the package was initialised.
getLoggerInitialDefault(cs, dl, c) ==
    LET l == Value(cs, c, contextKeyLogger)
    IN  IF l # Nil THEN l ELSE 1

\* getLogger(ctx): the logger of the context, or DefaultLogger.
getLogger(cs, dl, c) ==
    LET l == Value(cs, c, contextKeyLogger)
    IN  IF l # Nil THEN l ELSE dl

(***************************************************************************)
(* The state.                                                              *)
(*   holders        the level of every zap.AtomicLevel                     *)
(*   loggers        the zap.Logger of every facade                         *)
(*   hist           how each facade was made (history, read by no action)  *)
(*   ctxs           the context values                                     *)
(*   defaultLogger  the facade DefaultLogger points to                     *)
(*   ce             the CheckedEntry the application got from Check        *)
(*   status         running, panicking (a panic is unwinding) or exited    *)
(*   out            the lines the last operation wrote to standard error   *)
(*   last           the last operation, if it was one of this package, and *)
(*                  what it returned (history)                             *)
(***************************************************************************)
NoOp ==
    [op |-> "none", ctx |-> Background, lg |-> Nil, level |-> DebugLevel,
     msg |-> "", fields |-> <<>>, handle |-> FALSE,
     exited |-> FALSE, panicked |-> FALSE, failed |-> FALSE]

HistRoot(op) ==
    [op |-> op, parent |-> Nil, level |-> DebugLevel, seg |-> "", fields |-> <<>>]

Derived(op, l, level, seg, fs) ==
    [op |-> op, parent |-> l, level |-> level, seg |-> seg, fields |-> fs]

\* The facade main creates from the shared holder.
Production == 2

\* The goroutines, and what one holds while it is not emitting.
Threads == 1..NumThreads

NoThread == 0

Idle == [pc |-> "idle", lg |-> Nil, level |-> DebugLevel, seen |-> DebugLevel,
         read |-> DebugLevel, line |-> <<>>, sent |-> 0]

\* main: lvl := zap.NewAtomicLevelAt(zap.ErrorLevel)
\*       logger := log.NewProductionLogger(&lvl)
\* and the package variable DefaultLogger.
Init ==
    /\ holders = <<ErrorLevel>>
    /\ loggers = <<DefaultLoggerInit, NewProductionLogger(SharedHolder)>>
    /\ hist = <<HistRoot("NewNop"), HistRoot("NewProductionLogger")>>
    /\ ctxs = <<>>
    /\ defaultLogger = 1
    /\ out = <<>>
    /\ ce = NilEntry
    /\ status = "running"
    /\ last = NoOp
    /\ threads = [t \in Threads |-> Idle]
    /\ sink = <<>>
    /\ mutex = [l \in 1..MaxLoggers |-> NoThread]
    /\ fdmutex = NoThread

LoggerIds == 1..Len(loggers)
CtxIds == 0..Len(ctxs)

Running == status = "running"

\* There is room for one more facade in the smaller heap.
Room == Len(loggers) < MaxFacades

(***************************************************************************)
(* Steps shared by the operations.                                         *)
(***************************************************************************)
\* A method called on a nil Logger: a nil dereference, a runtime panic.
Fail(op, c) ==
    /\ status' = "panicking"
    /\ out' = <<>>
    /\ last' = [NoOp EXCEPT !.op = op, !.ctx = c, !.failed = TRUE, !.panicked = TRUE]
    /\ UNCHANGED <<holders, loggers, hist, ctxs, defaultLogger, ce, conc>>

\* AfterWrite with a fault: the action of the entry is not taken.
AfterWriteNoAction(should) == "running"

\* What a CheckedEntry does after it has written: panic, os.Exit(1), nothing.
AfterWrite(should) ==
    CASE should = "panic" -> "panicking"
      [] should = "fatal" -> "exited"
      [] OTHER -> "running"

\* The body of the seven leveled methods of zap.Logger:
\*   if ce := log.check(lvl, msg); ce != nil { ce.Write(fields...) }
Log(op, c, l, zl, r, msg, fs, via) ==
    LET e == ZapCheck(zl, holders, r, msg, via)
        should == IF e.ok THEN e.should ELSE "noop"
    IN  /\ out' = IF e.ok THEN WriteCores(e.cores, e, fs) ELSE <<>>
        /\ status' = AfterWrite(should)
        /\ last' = [op |-> op, ctx |-> c, lg |-> l, level |-> r, msg |-> msg,
                    fields |-> fs, handle |-> e.ok,
                    exited |-> status' = "exited",
                    panicked |-> status' = "panicking", failed |-> FALSE]
        /\ UNCHANGED <<holders, loggers, hist, ctxs, defaultLogger, ce, conc>>

\* A free function of context.go that logs: getLogger(ctx).<Level>(msg, fields...)
LogCtx(op, c, r, msg, fs) ==
    /\ Running
    /\ LET l == getLogger(ctxs, defaultLogger, c)
       IN  IF l = Nil THEN Fail(op, c)
           ELSE Log(op, c, l, loggers[l], r, msg, fs, "context")

(***************************************************************************)
(* The application: the level endpoint, the loggers it creates, the        *)
(* DefaultLogger it may set, the values it puts into contexts itself.      *)
(***************************************************************************)
\* lvl.SetLevel(v), also PUT /debug/log
SetLevel(v) ==
    /\ Running
    /\ holders' = [holders EXCEPT ![SharedHolder] = v]
    /\ out' = <<>>
    /\ last' = NoOp
    /\ UNCHANGED <<loggers, hist, ctxs, defaultLogger, ce, status, conc>>

\* another log.NewProductionLogger(&lvl)
NewLogger ==
    /\ Running
    /\ Len(loggers) < MaxLoggers
    /\ loggers' = Append(loggers, NewProductionLogger(SharedHolder))
    /\ hist' = Append(hist, HistRoot("NewProductionLogger"))
    /\ out' = <<>>
    /\ last' = NoOp
    /\ UNCHANGED <<holders, ctxs, defaultLogger, ce, status, conc>>

\* log.DefaultLogger = l
SetDefaultLogger(l) ==
    /\ Running
    /\ l # defaultLogger
    /\ defaultLogger' = l
    /\ out' = <<>>
    /\ last' = NoOp
    /\ UNCHANGED <<holders, loggers, hist, ctxs, ce, status, conc>>

\* context.WithValue(ctx, someOtherKey, v)
OtherValue(c) ==
    /\ Running
    /\ Len(ctxs) < MaxCtxs
    /\ ctxs' = WithValue(ctxs, c, otherKey, Nil)
    /\ out' = <<>>
    /\ last' = NoOp
    /\ UNCHANGED <<holders, loggers, hist, defaultLogger, ce, status, conc>>

\* defer func() { recover() }()
Recover ==
    /\ status = "panicking"
    /\ status' = "running"
    /\ out' = <<>>
    /\ last' = [NoOp EXCEPT !.op = "recover"]
    /\ UNCHANGED <<holders, loggers, hist, ctxs, defaultLogger, ce, conc>>

(***************************************************************************)
(* context.go                                                              *)
(***************************************************************************)
\* zap.AddCallerSkip(n) applied by WithOptions to a clone of the logger
AddCallerSkip(zl, n) == [zl EXCEPT !.callerSkip = @ + n]

\* Context(ctx, log): the clone which WithOptions returns is dropped, the
\* logger stored in the context is log itself.
Context(c, l) ==
    /\ Running
    /\ Len(ctxs) < MaxCtxs
    /\ LET dropped == AddCallerSkip(loggers[l], 1)
       IN  ctxs' = WithValue(ctxs, c, contextKeyLogger, l)
    /\ out' = <<>>
    /\ last' = NoOp
    /\ UNCHANGED <<holders, loggers, hist, defaultLogger, ce, status, conc>>

\* Sugar(ctx), and a <Level>w call on the SugaredLogger it returns
\* ((*zap.Logger).Sugar: a clone with callerSkip + 2).
Sugar(c, r, msg, fs) ==
    /\ Running
    /\ LET l == getLogger(ctxs, defaultLogger, c)
       IN  IF l = Nil THEN Fail("Sugar", c)
           ELSE Log("Sugar", c, l, AddCallerSkip(loggers[l], 2), r, msg, fs, "sugar")

Named(c, s) ==
    /\ Running
    /\ Len(loggers) < MaxLoggers
    /\ Len(ctxs) < MaxCtxs
    /\ LET l == getLogger(ctxs, defaultLogger, c)
       IN  IF l = Nil THEN Fail("Named", c)
           ELSE /\ loggers' = logger_Named(loggers, l, s)
                /\ hist' = Append(hist, Derived("Named", l, DebugLevel, s, <<>>))
                /\ ctxs' = WithValue(ctxs, c, contextKeyLogger, Len(loggers'))
                /\ out' = <<>>
                /\ last' = [NoOp EXCEPT !.op = "Named", !.ctx = c, !.lg = l]
                /\ UNCHANGED <<holders, defaultLogger, ce, status, conc>>

With(c, fs) ==
    /\ Running
    /\ Len(loggers) < MaxLoggers
    /\ Len(ctxs) < MaxCtxs
    /\ LET l == getLogger(ctxs, defaultLogger, c)
       IN  IF l = Nil THEN Fail("With", c)
           ELSE /\ loggers' = logger_With(loggers, l, fs)
                /\ hist' = Append(hist, Derived("With", l, DebugLevel, "", fs))
                /\ ctxs' = WithValue(ctxs, c, contextKeyLogger, Len(loggers'))
                /\ out' = <<>>
                /\ last' = [NoOp EXCEPT !.op = "With", !.ctx = c, !.lg = l]
                /\ UNCHANGED <<holders, defaultLogger, ce, status, conc>>

WithLevel(c, lvl) ==
    /\ Running
    /\ Len(loggers) < MaxLoggers
    /\ Len(ctxs) < MaxCtxs
    /\ LET l == getLogger(ctxs, defaultLogger, c)
       IN  IF l = Nil THEN Fail("WithLevel", c)
           ELSE LET r == logger_WithLevel(loggers, holders, l, lvl)
                IN  /\ loggers' = r.loggers
                    /\ holders' = r.holders
                    /\ hist' = Append(hist, Derived("WithLevel", l, lvl, "", <<>>))
                    /\ ctxs' = WithValue(ctxs, c, contextKeyLogger, Len(loggers'))
                    /\ out' = <<>>
                    /\ last' = [NoOp EXCEPT !.op = "WithLevel", !.ctx = c, !.lg = l, !.level = lvl]
                    /\ UNCHANGED <<defaultLogger, ce, status, conc>>

\* Check(ctx, lvl, msg): the CheckedEntry goes to the caller.
Check(c, r, msg) ==
    /\ Running
    /\ LET l == getLogger(ctxs, defaultLogger, c)
       IN  IF l = Nil THEN Fail("Check", c)
           ELSE /\ ce' = ZapCheck(loggers[l], holders, r, msg, "direct")
                /\ out' = <<>>
                /\ last' = [NoOp EXCEPT !.op = "Check", !.ctx = c, !.lg = l,
                                        !.level = r, !.msg = msg, !.handle = ce'.ok]
                /\ UNCHANGED <<holders, loggers, hist, ctxs, defaultLogger,
                               status, conc>>

\* ce.Write(fields...) on the CheckedEntry returned by Check
Write(fs) ==
    /\ Running
    /\ ce.ok
    /\ out' = WriteCores(ce.cores, ce, fs)
    /\ status' = AfterWrite(ce.should)
    /\ last' = [NoOp EXCEPT !.op = "Write", !.ctx = last.ctx, !.lg = last.lg,
                            !.level = ce.level, !.msg = ce.msg,
                            !.fields = fs, !.handle = TRUE,
                            !.exited = (status' = "exited"),
                            !.panicked = (status' = "panicking")]
    /\ ce' = NilEntry
    /\ UNCHANGED <<holders, loggers, hist, ctxs, defaultLogger, conc>>

DPanic(c, msg, fs) == LogCtx("DPanic", c, DPanicLevel, msg, fs)

Debug(c, msg, fs) == LogCtx("Debug", c, DebugLevel, msg, fs)

Error(c, msg, fs) == LogCtx("Error", c, ErrorLevel, msg, fs)

Fatal(c, msg, fs) == LogCtx("Fatal", c, FatalLevel, msg, fs)

Info(c, msg, fs) == LogCtx("Info", c, InfoLevel, msg, fs)

Panic(c, msg, fs) == LogCtx("Panic", c, PanicLevel, msg, fs)

Warn(c, msg, fs) == LogCtx("Warn", c, WarnLevel, msg, fs)

(***************************************************************************)
(* The methods of the facade, called on a logger the application holds.    *)
(***************************************************************************)
MethodWithLevel(l, lvl) ==
    /\ Running
    /\ Len(loggers) < MaxLoggers
    /\ LET r == logger_WithLevel(loggers, holders, l, lvl)
       IN  /\ loggers' = r.loggers
           /\ holders' = r.holders
    /\ hist' = Append(hist, Derived("WithLevel", l, lvl, "", <<>>))
    /\ out' = <<>>
    /\ last' = NoOp
    /\ UNCHANGED <<ctxs, defaultLogger, ce, status, conc>>

MethodWith(l, fs) ==
    /\ Running
    /\ Len(loggers) < MaxLoggers
    /\ loggers' = logger_With(loggers, l, fs)
    /\ hist' = Append(hist, Derived("With", l, DebugLevel, "", fs))
    /\ out' = <<>>
    /\ last' = NoOp
    /\ UNCHANGED <<holders, ctxs, defaultLogger, ce, status, conc>>

MethodNamed(l, s) ==
    /\ Running
    /\ Len(loggers) < MaxLoggers
    /\ loggers' = logger_Named(loggers, l, s)
    /\ hist' = Append(hist, Derived("Named", l, DebugLevel, s, <<>>))
    /\ out' = <<>>
    /\ last' = NoOp
    /\ UNCHANGED <<holders, ctxs, defaultLogger, ce, status, conc>>

\* l.Debug(msg, fields...), ..., l.Fatal(msg, fields...): the methods of the
\* embedded *zap.Logger
MethodLog(l, r, msg, fs) ==
    /\ Running
    /\ Log("logger.Log", Background, l, loggers[l], r, msg, fs, "direct")

(***************************************************************************)
(* Emits made concurrently.  A goroutine's emit is the steps of zap's       *)
(* Logger.Check and CheckedEntry.Write: the core decides with the level    *)
(* its holder has now, the entry is encoded into a buffer,                 *)
(* the mutex that zapcore.Lock put around os.Stderr in the facade's        *)
(* newZapCoreAtLevel call is taken, and one Write call hands the buffer to *)
(* os.Stderr.  Write of os.File holds the file's write lock while the      *)
(* bytes go to the descriptor, in as many writes as the system takes them; *)
(* two are modelled.                                                       *)
(***************************************************************************)
\* The root of a facade: the facade as NewProductionLogger or zap.NewNop
\* returned it, whose core every With, Named and WithLevel child shares.
RECURSIVE RootOf(_)
RootOf(l) == IF hist[l].parent = Nil THEN l ELSE RootOf(hist[l].parent)

\* The buffer as the descriptor receives it.
Chunk(line, part) ==
    IF part = 1 THEN SubSeq(line, 1, 2) ELSE SubSeq(line, 3, Len(line))

Emitting == {t \in Threads : threads[t].pc # "idle"}

\* go l.<Level>(msg): the goroutine enters the emit method.
ThreadEmit(t, l, r) ==
    /\ Running
    /\ threads[t].pc = "idle"
    /\ Len(sink) + 2 * Cardinality(Emitting) < 2 * MaxEmits
    /\ threads' = [threads EXCEPT ![t] =
           [Idle EXCEPT !.pc = "check", !.lg = l, !.level = r,
                        !.seen = Threshold(loggers[l], holders)]]
    /\ UNCHANGED <<holders, loggers, hist, ctxs, defaultLogger, out, ce,
                   status, last, sink, mutex, fdmutex>>

\* (*zap.Logger).Check: the decision, and the encoding of an accepted entry.
ThreadCheck(t) ==
    /\ Running
    /\ threads[t].pc = "check"
    /\ LET zl == loggers[threads[t].lg]
           e == ZapCheck(zl, holders, threads[t].level, "m", "direct")
       IN  threads' = [threads EXCEPT ![t] =
               IF e.ok /\ e.cores # <<>>
               THEN [@ EXCEPT !.pc = "encoded",
                              !.read = Threshold(zl, holders),
                              !.line = CoreWrite(e.cores[1], e, <<>>)[1]]
               ELSE [@ EXCEPT !.pc = "idle",
                              !.read = Threshold(zl, holders)]]
    /\ UNCHANGED <<holders, loggers, hist, ctxs, defaultLogger, out, ce,
                   status, last, sink, mutex, fdmutex>>

\* zapcore.Lock: lockedWriteSyncer.Write takes the mutex of the core.
MutexLock(t) ==
    /\ Running
    /\ threads[t].pc = "encoded"
    /\ mutex[RootOf(threads[t].lg)] = NoThread
    /\ mutex' = [mutex EXCEPT ![RootOf(threads[t].lg)] = t]
    /\ threads' = [threads EXCEPT ![t].pc = "locked"]
    /\ UNCHANGED <<holders, loggers, hist, ctxs, defaultLogger, out, ce,
                   status, last, sink, fdmutex>>

\* FileLock with a fault: the write goes ahead without the file's lock.
FileLockAnyway(t) ==
    /\ Running
    /\ threads[t].pc = "locked"
    /\ fdmutex' = t
    /\ threads' = [threads EXCEPT ![t].pc = "writing"]
    /\ UNCHANGED <<holders, loggers, hist, ctxs, defaultLogger, out, ce,
                   status, last, sink, mutex>>

\* os.Stderr.Write(buf): the write lock of the file is taken.
FileLock(t) ==
    /\ Running
    /\ threads[t].pc = "locked"
    /\ fdmutex = NoThread
    /\ fdmutex' = t
    /\ threads' = [threads EXCEPT ![t].pc = "writing"]
    /\ UNCHANGED <<holders, loggers, hist, ctxs, defaultLogger, out, ce,
                   status, last, sink, mutex>>

\* One write of the descriptor: the next part of the buffer reaches the sink.
FileWrite(t) ==
    /\ Running
    /\ threads[t].pc = "writing"
    /\ threads[t].sent < 2
    /\ sink' = Append(sink, [by |-> t, part |-> threads[t].sent + 1,
                             bytes |-> Chunk(threads[t].line, threads[t].sent + 1)])
    /\ threads' = [threads EXCEPT ![t].sent = @ + 1]
    /\ UNCHANGED <<holders, loggers, hist, ctxs, defaultLogger, out, ce,
                   status, last, mutex, fdmutex>>

\* The buffer is written: the file's lock is released.
FileUnlock(t) ==
    /\ Running
    /\ threads[t].pc = "writing"
    /\ threads[t].sent = 2
    /\ fdmutex' = IF fdmutex = t THEN NoThread ELSE fdmutex
    /\ threads' = [threads EXCEPT ![t].pc = "written"]
    /\ UNCHANGED <<holders, loggers, hist, ctxs, defaultLogger, out, ce,
                   status, last, sink, mutex>>

\* lockedWriteSyncer.Write returns: the mutex of the core is released and the
\* emit method returns.
MutexUnlock(t) ==
    /\ Running
    /\ threads[t].pc = "written"
    /\ mutex' = [mutex EXCEPT ![RootOf(threads[t].lg)] =
                     IF @ = t THEN NoThread ELSE @]
    /\ threads' = [threads EXCEPT ![t].pc = "idle"]
    /\ UNCHANGED <<holders, loggers, hist, ctxs, defaultLogger, out, ce,
                   status, last, sink, fdmutex>>

(***************************************************************************)
(* Concurrency: two goroutines emit on the facades of two                  *)
(* NewProductionLogger calls and a child of one, while the shared holder   *)
(* is written.                                                             *)
(***************************************************************************)
ConcLevels == {DebugLevel, WarnLevel}

NextConc ==
    \/ \E v \in ConcLevels : SetLevel(v)
    \/ Room /\ NewLogger
    \/ Room /\ MethodWith(Production, <<F1>>)
    \/ \E t \in Threads, l \in LoggerIds \ {1}, r \in {InfoLevel} :
           ThreadEmit(t, l, r)
    \/ \E t \in Threads : ThreadCheck(t)
    \/ \E t \in Threads : MutexLock(t)
    \/ \E t \in Threads : FileLock(t)
    \/ \E t \in Threads : FileWrite(t)
    \/ \E t \in Threads : FileUnlock(t)
    \/ \E t \in Threads : MutexUnlock(t)

SpecConc == Init /\ [][NextConc]_vars

(***************************************************************************)
(* Levels: the holders, the derivations and the emit decision.  Messages   *)
(* and fields are drawn from one value each.                               *)
(***************************************************************************)
NextLevel ==
    \/ \E v \in SetLevels : SetLevel(v)
    \/ \E l \in LoggerIds : Context(Background, l)
    \/ Room /\ \E c \in CtxIds : Named(c, "a")
    \/ Room /\ \E c \in CtxIds : With(c, <<F1>>)
    \/ Room /\ \E c \in CtxIds, lvl \in WithLevels : WithLevel(c, lvl)
    \/ \E c \in CtxIds : DPanic(c, "m", <<>>)
    \/ \E c \in CtxIds : Debug(c, "m", <<>>)
    \/ \E c \in CtxIds : Error(c, "m", <<>>)
    \/ \E c \in CtxIds : Fatal(c, "m", <<>>)
    \/ \E c \in CtxIds : Info(c, "m", <<>>)
    \/ \E c \in CtxIds : Panic(c, "m", <<>>)
    \/ \E c \in CtxIds : Warn(c, "m", <<>>)
    \/ Recover

SpecLevel == Init /\ [][NextLevel]_vars

(***************************************************************************)
(* Check and Write: the application asks for a CheckedEntry, the level may *)
(* change, the application writes the entry.                               *)
(***************************************************************************)
WriteFields == {<<>>, <<F2>>, <<F2, F1>>}

NextCheck ==
    \/ \E v \in {DebugLevel, FatalLevel} : SetLevel(v)
    \/ \E l \in LoggerIds : Context(Background, l)
    \/ Room /\ \E c \in CtxIds : With(c, <<F1>>)
    \/ Room /\ \E c \in CtxIds : WithLevel(c, FatalLevel)
    \/ \E c \in CtxIds, r \in Levels : Check(c, r, "m")
    \/ \E fs \in WriteFields : Write(fs)
    \/ Recover

SpecCheck == Init /\ [][NextCheck]_vars

(***************************************************************************)
(* The fallback: contexts with and without a logger, the free functions    *)
(* called on them, DefaultLogger set by the application.                   *)
(***************************************************************************)
NextFallback ==
    \/ \E c \in CtxIds : OtherValue(c)
    \/ SetDefaultLogger(Production)
    \/ Context(Background, Production)
    \/ \E c \in CtxIds : Sugar(c, InfoLevel, "m", <<F1>>)
    \/ Room /\ \E c \in CtxIds : Named(c, "a")
    \/ Room /\ \E c \in CtxIds : With(c, <<F1>>)
    \/ Room /\ \E c \in CtxIds : WithLevel(c, DebugLevel)
    \/ \E c \in CtxIds : Check(c, ErrorLevel, "m")
    \/ \E c \in CtxIds : DPanic(c, "m", <<>>)
    \/ \E c \in CtxIds : Debug(c, "m", <<>>)
    \/ \E c \in CtxIds : Error(c, "m", <<>>)
    \/ \E c \in CtxIds : Fatal(c, "m", <<>>)
    \/ \E c \in CtxIds : Info(c, "m", <<>>)
    \/ \E c \in CtxIds : Panic(c, "m", <<>>)
    \/ \E c \in CtxIds : Warn(c, "m", <<>>)
    \/ Recover

SpecFallback == Init /\ [][NextFallback]_vars

(***************************************************************************)
(* Panic, Fatal and DPanic, on facades that accept them and on facades     *)
(* that do not, and the application recovering a panic.                    *)
(***************************************************************************)
NextAbort ==
    \/ \E v \in {DebugLevel, FatalLevel, AboveFatal} : SetLevel(v)
    \/ \E l \in LoggerIds : Context(Background, l)
    \/ Room /\ \E c \in CtxIds : WithLevel(c, FatalLevel)
    \/ Room /\ \E c \in CtxIds : Named(c, "a")
    \/ \E c \in CtxIds, fs \in {<<>>, <<F1>>} : Fatal(c, "m", fs)
    \/ \E c \in CtxIds, fs \in {<<>>, <<F1>>} : Panic(c, "m", fs)
    \/ \E c \in CtxIds, fs \in {<<>>, <<F1>>} : DPanic(c, "m", fs)
    \/ \E c \in CtxIds, fs \in {<<>>, <<F1>>} : Error(c, "m", fs)
    \/ \E l \in LoggerIds, r \in {PanicLevel, FatalLevel} : MethodLog(l, r, "m", <<>>)
    \/ Recover

SpecAbort == Init /\ [][NextAbort]_vars

(***************************************************************************)
(* Names and fields: a chain of derivations made on the newest facade and   *)
(* through contexts, and what the emitted line carries.                    *)
(***************************************************************************)
WithInputs == {<<F1>>, <<F2, F1>>}

EmitInputs == {<<>>, <<F1, F2>>}

NextText ==
    \/ \E s \in Segments : MethodNamed(Len(loggers), s)
    \/ \E fs \in WithInputs : MethodWith(Len(loggers), fs)
    \/ MethodWithLevel(Len(loggers), DebugLevel)
    \/ \E fs \in EmitInputs : MethodLog(Len(loggers), ErrorLevel, "m", fs)
    \/ Context(Background, Len(loggers))
    \/ \E c \in CtxIds : Named(c, "b")
    \/ \E c \in CtxIds : With(c, <<F2>>)
    \/ \E c \in CtxIds, fs \in EmitInputs : Error(c, "m", fs)

SpecText == Init /\ [][NextText]_vars

(***************************************************************************)
(* Frozen chains: WithLevel, With and Named made one below the other on    *)
(* the newest facade and through contexts, emits on every facade, and      *)
(* writes to the shared holder in between.                                 *)
(***************************************************************************)
NextFrozen ==
    \/ \E v \in {DebugLevel, FatalLevel} : SetLevel(v)
    \/ MethodWithLevel(Len(loggers), InfoLevel)
    \/ MethodWith(Len(loggers), <<F1>>)
    \/ MethodNamed(Len(loggers), "a")
    \/ \E l \in LoggerIds, r \in {DebugLevel, InfoLevel} :
           MethodLog(l, r, "m", <<>>)
    \/ Context(Background, Len(loggers))
    \/ \E c \in CtxIds : With(c, <<F2>>)
    \/ \E c \in CtxIds : Info(c, "m", <<>>)

SpecFrozen == Init /\ [][NextFrozen]_vars

(***************************************************************************)
(* Notions the properties use.                                             *)
(***************************************************************************)
EmitOps == {"Debug", "Info", "Warn", "Error", "DPanic", "Panic", "Fatal",
            "logger.Log", "Sugar"}

\* The last operation was an emit made on facade i.
EmittedOn(i) == last.op \in EmitOps /\ last.lg = i

\* A Check made now on facade i at level r would be accepted: the returned
\* entry has a core to write to.
WillWrite(e) == e.ok /\ e.cores # <<>>

Accepts(i, r) == WillWrite(ZapCheck(loggers[i], holders, r, "m", "direct"))

\* Facade i writes to standard error (it descends from a production logger).
Writes(i) == loggers[i].core.base = "io"

\* Facade i is bound to the shared holder.
TracksShared(i) ==
    /\ loggers[i].core.wraps # <<>>
    /\ Last(loggers[i].core.wraps) = SharedHolder

\* Facade i descends from a production logger by With and Named only.
RECURSIVE DynamicChain(_)
DynamicChain(i) ==
    \/ hist[i].op = "NewProductionLogger"
    \/ hist[i].op \in {"With", "Named"} /\ DynamicChain(hist[i].parent)

\* The threshold the derivations of facade i give it: the level of the
\* nearest WithLevel, else the level the shared holder holds now; nothing
\* passes a facade derived from zap.NewNop() without WithLevel.
RECURSIVE SpecThreshold(_)
SpecThreshold(i) ==
    CASE hist[i].op = "WithLevel" -> hist[i].level
      [] hist[i].op = "NewProductionLogger" -> holders[SharedHolder]
      [] hist[i].op = "NewNop" -> NoStack
      [] OTHER -> SpecThreshold(hist[i].parent)

\* The fields the derivations of facade i give it, oldest first; the core of
\* zap.NewNop() keeps none.
RECURSIVE Root(_)
Root(i) == IF hist[i].parent = Nil THEN i ELSE Root(hist[i].parent)

RECURSIVE WithFields(_)
WithFields(i) ==
    CASE hist[i].parent = Nil -> <<>>
      [] hist[i].op = "With" -> WithFields(hist[i].parent) \o hist[i].fields
      [] OTHER -> WithFields(hist[i].parent)

SpecFields(i) == IF hist[Root(i)].op = "NewNop" THEN <<>> ELSE WithFields(i)

\* The segment <<key, value>> is in the line, and where.
Has(line, seg) == \E k \in 1..Len(line) : line[k] = seg

(***************************************************************************)
(* C1: a facade made by WithLevel(L) from a parent that tracks the shared  *)
(* holder accepts a record of level r iff r >= L, whatever has been        *)
(* written to the shared holder since; an emit on it writes a line iff     *)
(* r >= L.                                                                 *)
(***************************************************************************)
FrozenFromShared(i) == hist[i].op = "WithLevel" /\ TracksShared(hist[i].parent)

C1_FrozenLevelIgnoresHolder ==
    \A i \in LoggerIds :
        FrozenFromShared(i) =>
            /\ \A r \in Levels : Accepts(i, r) <=> r >= hist[i].level
            /\ EmittedOn(i) => (Len(out) = 1 <=> last.level >= hist[i].level)

\* The shared holder has been written to Fatal, the child frozen at Info has
\* just written an Info record which the holder would drop.
C1_Witness ==
    \E i \in LoggerIds :
        /\ FrozenFromShared(i)
        /\ hist[i].level = InfoLevel
        /\ holders[SharedHolder] = FatalLevel
        /\ EmittedOn(i)
        /\ last.level = InfoLevel
        /\ Len(out) = 1

(***************************************************************************)
(* C2: on a production facade and on every facade derived from it by With  *)
(* and Named only, a record is accepted iff its level is at least the      *)
(* level the shared holder holds now, that is the last level written to    *)
(* it; an emit writes a line iff so.                                       *)
(***************************************************************************)
C2_SharedLevelTakesEffect ==
    \A i \in LoggerIds :
        DynamicChain(i) =>
            /\ \A r \in Levels : Accepts(i, r) <=> r >= holders[SharedHolder]
            /\ EmittedOn(i) => (Len(out) = 1 <=> last.level >= holders[SharedHolder])

\* A facade two derivations below the production logger has just written a
\* Debug record: the holder, that started at Error, was written to Debug.
C2_Witness ==
    \E i \in LoggerIds :
        /\ DynamicChain(i)
        /\ hist[i].op = "With"
        /\ hist[hist[i].parent].op = "Named"
        /\ holders[SharedHolder] = DebugLevel
        /\ EmittedOn(i)
        /\ last.level = DebugLevel
        /\ Len(out) = 1

(***************************************************************************)
(* C3: the threshold of a facade made by WithLevel(L) is L, whatever the   *)
(* thresholds of its ancestors: it accepts a record of level r iff r >= L, *)
(* and if it writes to standard error an emit on it writes a line iff      *)
(* r >= L.                                                                 *)
(***************************************************************************)
C3_WithLevelThresholdExact ==
    \A i \in LoggerIds :
        hist[i].op = "WithLevel" =>
            /\ \A r \in Levels : Accepts(i, r) <=> r >= hist[i].level
            /\ EmittedOn(i) /\ Writes(i) =>
                   (Len(out) = 1 <=> last.level >= hist[i].level)

\* Error root -> WithLevel(Info) -> WithLevel(Debug): a Debug record has just
\* been written.
C3_Witness ==
    \E i \in LoggerIds :
        /\ hist[i].op = "WithLevel"
        /\ hist[i].level = DebugLevel
        /\ hist[hist[i].parent].op = "WithLevel"
        /\ hist[hist[i].parent].level = InfoLevel
        /\ hist[hist[i].parent].parent = Production
        /\ holders[SharedHolder] = ErrorLevel
        /\ EmittedOn(i)
        /\ last.level = DebugLevel
        /\ Len(out) = 1

(***************************************************************************)
(* C4: a WithLevel step changes no facade that existed before it, nor the  *)
(* facade any existing context resolves to, nor what any of them accepts;  *)
(* and a facade derived by With or Named accepts what its parent accepts,  *)
(* whatever WithLevel children the parent has.                             *)
(***************************************************************************)
WithLevelStep ==
    /\ Len(loggers') = Len(loggers) + 1
    /\ hist'[Len(loggers')].op = "WithLevel"

C4_WithLevelFrame ==
    [][ /\ WithLevelStep =>
            /\ \A i \in LoggerIds :
                   /\ loggers'[i] = loggers[i]
                   /\ \A r \in Levels :
                          CoreEnabled(loggers'[i].core, holders', r)
                              <=> CoreEnabled(loggers[i].core, holders, r)
            /\ \A c \in CtxIds :
                   getLogger(ctxs', defaultLogger', c) = getLogger(ctxs, defaultLogger, c)
        /\ \A i \in LoggerIds :
               hist[i].op \in {"With", "Named"} =>
                   \A r \in Levels : Accepts(i, r) <=> Accepts(hist[i].parent, r)
      ]_vars

\* The production logger has a WithLevel(Debug) child; a Debug record has
\* just been emitted through a facade derived from the production logger
\* after that child, and dropped by the parent's threshold.
C4_Witness ==
    \E i, j \in LoggerIds :
        /\ hist[i].op = "WithLevel"
        /\ hist[i].parent = Production
        /\ hist[i].level = DebugLevel
        /\ j > i
        /\ hist[j].op = "Named"
        /\ hist[j].parent = Production
        /\ holders[SharedHolder] = ErrorLevel
        /\ EmittedOn(j)
        /\ last.level = DebugLevel
        /\ out = <<>>

(***************************************************************************)
(* C5 as stated: Check returns a handle iff the level meets the threshold  *)
(* of the facade active in the context.                                    *)
(***************************************************************************)
C5_HandleIffEnabled ==
    last.op = "Check" => (last.handle <=> last.level >= SpecThreshold(last.lg))

(***************************************************************************)
(* C5, amended: Check returns a handle iff the level meets the threshold   *)
(* of the facade active in the context or the level is Panic or Fatal, and *)
(* Check writes nothing.  Writing the handle writes exactly one line,      *)
(* which carries the message, the fields of the facade and the fields      *)
(* given, if the level met the threshold when Check was called and the     *)
(* facade writes to standard error, and no line otherwise; the handle of a *)
(* Panic entry then panics, that of a Fatal entry ends the process.        *)
(***************************************************************************)
C5_CheckReturns ==
    last.op = "Check" /\ ~last.failed =>
        /\ last.handle <=>
               \/ last.level >= SpecThreshold(last.lg)
               \/ last.level \in {PanicLevel, FatalLevel}
        /\ ce.ok = last.handle
        /\ WillWrite(ce) <=> last.level >= SpecThreshold(last.lg)
        /\ WillWrite(ce) => ce.cores[1].fields = SpecFields(last.lg)
        /\ out = <<>>

C5_WriteWrites ==
    ce.ok /\ last'.op = "Write" =>
        /\ IF WillWrite(ce) /\ ce.cores[1].base = "io"
           THEN /\ Len(out') = 1
                /\ Has(out'[1], <<"level", LevelName(ce.level)>>)
                /\ \E k \in 1..Len(out'[1]) :
                       /\ out'[1][k] = <<"msg", ce.msg>>
                       /\ SubSeq(out'[1], k + 1,
                                 k + Len(ce.cores[1].fields) + Len(last'.fields))
                              = ce.cores[1].fields \o last'.fields
           ELSE out' = <<>>
        /\ status' = CASE ce.level = PanicLevel -> "panicking"
                       [] ce.level = FatalLevel -> "exited"
                       [] OTHER -> "running"

C5_CheckAndWrite == [](C5_CheckReturns) /\ [][C5_WriteWrites]_vars

\* A Debug entry checked on a facade with a field has just been written with
\* two fields more.
C5_Witness ==
    /\ last.op = "Write"
    /\ last.level = DebugLevel
    /\ last.fields = <<F2, F1>>
    /\ Len(out) = 1
    /\ Has(out[1], F1)
    /\ out[1][Len(out[1])] = F1
    /\ out[1][Len(out[1]) - 2] = F1

(***************************************************************************)
(* C6: in a context to which no logger was ever attached getLogger finds   *)
(* DefaultLogger, never nil; Check, the seven emit functions, Sugar,       *)
(* Named, With and WithLevel called on such a context act on DefaultLogger *)
(* and do not fail, and as long as DefaultLogger is the logger it is       *)
(* initialised to they write nothing.                                      *)
(***************************************************************************)
RECURSIVE NeverAttached(_)
NeverAttached(c) ==
    \/ c = Background
    \/ ctxs[c].key # contextKeyLogger /\ NeverAttached(ctxs[c].parent)

CtxOps == {"Check", "Debug", "Info", "Warn", "Error", "DPanic", "Panic", "Fatal",
           "Sugar", "Named", "With", "WithLevel"}

C6_FallbackToDefault ==
    /\ \A c \in CtxIds :
           NeverAttached(c) =>
               /\ getLogger(ctxs, defaultLogger, c) = defaultLogger
               /\ getLogger(ctxs, defaultLogger, c) \in LoggerIds
    /\ last.op \in CtxOps /\ NeverAttached(last.ctx) =>
           /\ ~last.failed
           /\ last.lg = defaultLogger
           /\ defaultLogger = 1 => out = <<>>
           /\ last.op \in {"Named", "With", "WithLevel"} =>
                  /\ hist[Len(loggers)].parent = defaultLogger
                  /\ ctxs[Len(ctxs)].val = Len(loggers)

\* Error has just been called on a context that carries another key only;
\* it went to the DefaultLogger the package starts with and wrote nothing.
C6_Witness ==
    /\ last.op = "Error"
    /\ last.ctx # Background
    /\ NeverAttached(last.ctx)
    /\ last.lg = 1
    /\ ~last.failed
    /\ out = <<>>

(***************************************************************************)
(* C7: a Fatal call ends the process whatever the facade accepts, also on  *)
(* a facade whose holder is above Fatal and on the discarding              *)
(* DefaultLogger; if the record is accepted and the facade writes to       *)
(* standard error its one line is written in the same call, else nothing   *)
(* is written.                                                             *)
(***************************************************************************)
FatalCall == last.op = "Fatal" \/ (last.op = "logger.Log" /\ last.level = FatalLevel)

C7_FatalAlwaysExits ==
    FatalCall /\ ~last.failed =>
        /\ status = "exited"
        /\ last.exited
        /\ IF FatalLevel >= SpecThreshold(last.lg) /\ Writes(last.lg)
           THEN /\ Len(out) = 1
                /\ Has(out[1], <<"level", "fatal">>)
                /\ Has(out[1], <<"msg", last.msg>>)
           ELSE out = <<>>

\* Fatal called on a production facade whose holder lets nothing pass: no
\* line, and the process has exited.
C7_Witness ==
    /\ last.op = "Fatal"
    /\ Writes(last.lg)
    /\ SpecThreshold(last.lg) = AboveFatal
    /\ out = <<>>
    /\ status = "exited"

(***************************************************************************)
(* C8: a Panic call raises a panic whatever the facade accepts; if the     *)
(* record is accepted and the facade writes to standard error exactly one  *)
(* line at level panic is written in the same call, else nothing is        *)
(* written.  Recovering the panic changes no logger, context or holder,    *)
(* and the emit made next is decided by the threshold as any other.        *)
(***************************************************************************)
PanicCall == last.op = "Panic" \/ (last.op = "logger.Log" /\ last.level = PanicLevel)

C8_PanicRaised ==
    PanicCall /\ ~last.failed =>
        /\ status = "panicking"
        /\ last.panicked
        /\ IF PanicLevel >= SpecThreshold(last.lg) /\ Writes(last.lg)
           THEN /\ Len(out) = 1
                /\ Has(out[1], <<"level", "panic">>)
                /\ Has(out[1], <<"msg", last.msg>>)
           ELSE out = <<>>

C8_RecoverContinues ==
    /\ status = "panicking" /\ status' = "running" =>
           UNCHANGED <<holders, loggers, ctxs, defaultLogger>>
    /\ last.op = "recover" /\ last'.op \in EmitOps =>
           /\ ~last'.failed
           /\ Len(out') = 1 <=>
                  /\ last'.level >= SpecThreshold(last'.lg)
                  /\ Writes(last'.lg)

C8_PanicAlwaysPanics == [](C8_PanicRaised) /\ [][C8_RecoverContinues]_vars

\* Panic called on a facade frozen at Fatal: nothing written, the panic is
\* raised all the same.
C8_Witness ==
    /\ last.op = "Panic"
    /\ Writes(last.lg)
    /\ hist[last.lg].op = "WithLevel"
    /\ SpecThreshold(last.lg) = FatalLevel
    /\ out = <<>>
    /\ status = "panicking"

(***************************************************************************)
(* C9: the name of a facade is the segments its Named derivations were     *)
(* given, from the root on, joined with "."; With and WithLevel            *)
(* derivations in between leave the name as it is.  C9_NameIsJoin joins    *)
(* all the segments, C9_NameIsJoinOfNonEmpty the segments that are not     *)
(* empty: Named("") leaves the name unchanged.  A written line carries the *)
(* name in its logger segment, and no logger segment when the name is      *)
(* empty.                                                                  *)
(***************************************************************************)
RECURSIVE NameSegments(_)
NameSegments(i) ==
    CASE hist[i].parent = Nil -> <<>>
      [] hist[i].op = "Named" -> Append(NameSegments(hist[i].parent), hist[i].seg)
      [] OTHER -> NameSegments(hist[i].parent)

RECURSIVE JoinDots(_)
JoinDots(segs) ==
    CASE Len(segs) = 0 -> ""
      [] Len(segs) = 1 -> segs[1]
      [] OTHER -> JoinDots(SubSeq(segs, 1, Len(segs) - 1)) \o "." \o Last(segs)

NonEmpty(segs) == SelectSeq(segs, LAMBDA x : x # "")

C9_NameIsJoin ==
    \A i \in LoggerIds : loggers[i].name = JoinDots(NameSegments(i))

LoggerSegment(line) == SelectSeq(line, LAMBDA x : x[1] = "logger")

C9_NameIsJoinOfNonEmpty ==
    /\ \A i \in LoggerIds : loggers[i].name = JoinDots(NonEmpty(NameSegments(i)))
    /\ \A i \in LoggerIds :
           EmittedOn(i) /\ Len(out) = 1 =>
               LoggerSegment(out[1]) =
                   IF loggers[i].name = "" THEN <<>>
                   ELSE << <<"logger", JoinDots(NonEmpty(NameSegments(i)))>> >>

\* A line written by a facade named by two Named derivations with a With
\* or WithLevel derivation between them.
C9_Witness ==
    \E i \in LoggerIds :
        /\ EmittedOn(i) /\ Len(out) = 1
        /\ hist[i].op = "Named"
        /\ hist[i].parent # Nil
        /\ hist[hist[i].parent].op \in {"With", "WithLevel"}
        /\ hist[hist[i].parent].parent # Nil
        /\ hist[hist[hist[i].parent].parent].op = "Named"
        /\ Len(NonEmpty(NameSegments(i))) = 2
        /\ Has(out[1], <<"logger", "a.b">>)

(***************************************************************************)
(* C10: the field segments of a written line are the fields of the With    *)
(* derivations from the root on, oldest first and each as given, followed  *)
(* by the fields of the emit call as given: none dropped, doubled or       *)
(* moved.                                                                  *)
(***************************************************************************)
MetaKeys == {"ts", "level", "logger", "caller", "msg", "stacktrace"}

FieldSegments(line) == SelectSeq(line, LAMBDA x : x[1] \notin MetaKeys)

C10_FieldOrder ==
    \A i \in LoggerIds :
        EmittedOn(i) /\ Len(out) = 1 =>
            FieldSegments(out[1]) = SpecFields(i) \o last.fields

\* A line written after two With derivations with different fields and an
\* emit with fields of its own.
C10_Witness ==
    \E i \in LoggerIds :
        /\ EmittedOn(i) /\ Len(out) = 1
        /\ hist[i].op = "With"
        /\ hist[i].fields = <<F1>>
        /\ hist[i].parent # Nil
        /\ hist[hist[i].parent].op = "With"
        /\ hist[hist[i].parent].fields = <<F2, F1>>
        /\ last.fields = <<F1, F2>>
        /\ FieldSegments(out[1]) = <<F2, F1, F1, F1, F2>>

(***************************************************************************)
(* C11: With changes no facade that exists: a line written through the     *)
(* parent or through a sibling carries a field only if a With derivation   *)
(* of that facade's own chain or the emit call itself gave it, and no      *)
(* step, an emit with fields included, changes a facade.                   *)
(***************************************************************************)
Range(q) == {q[k] : k \in 1..Len(q)}

C11_NoForeignFields ==
    \A i \in LoggerIds :
        EmittedOn(i) /\ Len(out) = 1 =>
            \A f \in {F1, F2} :
                Has(out[1], f) => f \in Range(SpecFields(i)) \cup Range(last.fields)

C11_FacadesKept == \A i \in LoggerIds : loggers'[i] = loggers[i]

C11_WithIsolated == [](C11_NoForeignFields) /\ [][C11_FacadesKept]_vars

\* A line written through a parent after With made a child of it: the line
\* has none of the child's fields.
C11_Witness ==
    \E i, j \in LoggerIds :
        /\ hist[j].op = "With" /\ hist[j].parent = i
        /\ EmittedOn(i) /\ Len(out) = 1
        /\ last.fields = <<>>
        /\ \A f \in Range(hist[j].fields) : ~Has(out[1], f)

(***************************************************************************)
(* C12: a written line is the segments ts, level, logger, caller, msg,     *)
(* the fields, stacktrace in this order, ts, level and msg once each and   *)
(* logger, caller and stacktrace at most once; the logger segment is there *)
(* iff the facade's name is not empty and then carries the name; the level *)
(* segment carries the lowercase name of the level of the emit.            *)
(***************************************************************************)
Rank(seg) ==
    CASE seg[1] = "ts" -> 1
      [] seg[1] = "level" -> 2
      [] seg[1] = "logger" -> 3
      [] seg[1] = "caller" -> 4
      [] seg[1] = "msg" -> 5
      [] seg[1] = "stacktrace" -> 7
      [] OTHER -> 6

Count(line, key) == Cardinality({k \in 1..Len(line) : line[k][1] = key})

LowercaseNames == {"debug", "info", "warn", "error", "dpanic", "panic", "fatal"}

C12_LineFormat ==
    \A i \in LoggerIds :
        EmittedOn(i) /\ Len(out) = 1 =>
            LET line == out[1]
            IN  /\ \A k \in 1..(Len(line) - 1) : Rank(line[k]) <= Rank(line[k + 1])
                /\ \A key \in {"ts", "level", "msg"} : Count(line, key) = 1
                /\ \A key \in {"caller", "stacktrace"} : Count(line, key) <= 1
                /\ Count(line, "logger") = IF loggers[i].name = "" THEN 0 ELSE 1
                /\ loggers[i].name # "" => Has(line, <<"logger", loggers[i].name>>)
                /\ ~Has(line, <<"logger", "">>)
                /\ \E n \in LowercaseNames :
                       /\ Has(line, <<"level", n>>)
                       /\ n = CASE last.level = DebugLevel -> "debug"
                                [] last.level = InfoLevel -> "info"
                                [] last.level = WarnLevel -> "warn"
                                [] last.level = ErrorLevel -> "error"
                                [] last.level = DPanicLevel -> "dpanic"
                                [] last.level = PanicLevel -> "panic"
                                [] last.level = FatalLevel -> "fatal"

\* The line of a Debug call on an unnamed facade without fields: ts, level,
\* caller and msg, and no logger segment.
C12_Witness ==
    /\ last.op = "Debug"
    /\ Len(out) = 1
    /\ Len(out[1]) = 4
    /\ out[1][1] = <<"ts", Timestamp>>
    /\ out[1][2] = <<"level", "debug">>
    /\ out[1][3][1] = "caller"
    /\ out[1][4] = <<"msg", "m">>

(***************************************************************************)
(* C13: Context(ctx, f) returns a context whose active facade skips one    *)
(* frame more than f when it reports the caller, so that an emit made      *)
(* through a free function of context.go reports the caller the same emit  *)
(* made on the facade itself reports.  The code drops the logger that      *)
(* WithOptions(zap.AddCallerSkip(1)) returns: the context holds f itself,  *)
(* and the two ways of emitting report different callers.                  *)
(***************************************************************************)
CtxEmitOps == {"Debug", "Info", "Warn", "Error", "DPanic", "Panic", "Fatal"}

\* The step is a call of Context: a context value with a logger is made and
\* no facade is derived.
ContextStep ==
    /\ Len(ctxs') = Len(ctxs) + 1
    /\ ctxs'[Len(ctxs')].key = contextKeyLogger
    /\ hist' = hist

C13_SkipsOneMore ==
    ContextStep =>
        LET f == ctxs'[Len(ctxs')].val
            active == getLogger(ctxs', defaultLogger', Len(ctxs'))
        IN  loggers'[active].callerSkip = loggers[f].callerSkip + 1

\* The caller segment of a line.
CallerSegment(line) == SelectSeq(line, LAMBDA x : x[1] = "caller")

\* The line the same emit writes when it is made on the facade itself.
DirectLine(i) ==
    WriteCores(<<loggers[i].core>>,
               ZapCheck(loggers[i], holders, last.level, last.msg, "direct"),
               last.fields)[1]

C13_SameCallerLine ==
    \A i \in LoggerIds :
        EmittedOn(i) /\ last.op \in CtxEmitOps /\ Len(out) = 1 =>
            CallerSegment(out[1]) = CallerSegment(DirectLine(i))

C13_ContextCallerSkip == [](C13_SameCallerLine) /\ [][C13_SkipsOneMore]_vars

\* An emit through a context made by Context reports its call site, the
\* same emit on the facade itself would report the caller of the call site.
C13_Witness ==
    \E i \in LoggerIds :
        /\ EmittedOn(i) /\ last.op \in CtxEmitOps /\ Len(out) = 1
        /\ last.ctx # Background
        /\ ctxs[last.ctx].val = i
        /\ hist[i].parent = Nil
        /\ CallerSegment(out[1]) = << <<"caller", "app">> >>
        /\ CallerSegment(DirectLine(i)) = << <<"caller", "app-caller">> >>

(***************************************************************************)
(* C14: whatever way concurrent emits interleave, on one facade, on a      *)
(* facade and its child, and on the facades of two NewProductionLogger     *)
(* calls, the bytes of a line reach standard error one after the other:    *)
(* the first part of a line is followed by its second part and by nothing  *)
(* else, and no second part comes without its first.                       *)
(***************************************************************************)
C14_LinesContiguous ==
    \A k \in 1..Len(sink) :
        /\ sink[k].part = 1 /\ k < Len(sink) =>
               /\ sink[k + 1].by = sink[k].by
               /\ sink[k + 1].part = 2
               /\ LET line == sink[k].bytes \o sink[k + 1].bytes
                  IN  /\ line[1][1] = "ts"
                      /\ Count(line, "ts") = 1
                      /\ Count(line, "msg") = 1
        /\ sink[k].part = 2 =>
               /\ k > 1
               /\ sink[k - 1].by = sink[k].by
               /\ sink[k - 1].part = 1

\* Two goroutines emit on the facades of two NewProductionLogger calls: one
\* has written the first part of its line, the other holds the mutex of its
\* own core and waits for the file.
C14_Witness ==
    \E t, u \in Threads :
        /\ threads[t].pc = "writing" /\ threads[t].sent = 1
        /\ threads[u].pc = "locked"
        /\ RootOf(threads[t].lg) # RootOf(threads[u].lg)
        /\ mutex[RootOf(threads[t].lg)] = t
        /\ mutex[RootOf(threads[u].lg)] = u
        /\ Len(sink) = 3

(***************************************************************************)
(* C15: on a facade that descends from NewProductionLogger a DPanic call   *)
(* whose level is accepted writes exactly one line, at level dpanic, and   *)
(* returns: no panic is raised and the process goes on.                    *)
(***************************************************************************)
C15_DPanicReturns ==
    /\ last.op = "DPanic"
    /\ ~last.failed
    /\ Writes(last.lg)
    /\ DPanicLevel >= SpecThreshold(last.lg)
    =>
    /\ Len(out) = 1
    /\ Has(out[1], <<"level", "dpanic">>)
    /\ Has(out[1], <<"msg", last.msg>>)
    /\ ~last.panicked
    /\ ~last.exited
    /\ status = "running"

\* DPanic through a context of the production logger, the holder at Debug.
C15_Witness ==
    /\ last.op = "DPanic"
    /\ last.ctx # Background
    /\ Writes(last.lg)
    /\ SpecThreshold(last.lg) = DebugLevel
    /\ Len(out) = 1
    /\ Has(out[1], <<"level", "dpanic">>)
    /\ status = "running"

(***************************************************************************)
(* C16: a facade WithLevel returns is its parent but for the level wrapper *)
(* around its core: it has the parent's name and the parent's fields in    *)
(* the parent's order, and a line it writes carries the parent's name, the *)
(* parent's fields and then the fields of the call.                        *)
(***************************************************************************)
WithLevelChild(j) == hist[j].op = "WithLevel"

C16_WithLevelInherits ==
    \A j \in LoggerIds :
        WithLevelChild(j) =>
            LET p == hist[j].parent
            IN  /\ loggers[j].name = loggers[p].name
                /\ loggers[j].core.fields = loggers[p].core.fields
                /\ [loggers[j] EXCEPT !.core.wraps = loggers[p].core.wraps]
                       = loggers[p]
                /\ EmittedOn(j) /\ Len(out) = 1 =>
                       /\ LoggerSegment(out[1]) =
                              IF loggers[p].name = "" THEN <<>>
                              ELSE << <<"logger", loggers[p].name>> >>
                       /\ FieldSegments(out[1]) =
                              loggers[p].core.fields \o last.fields

\* A line written by the WithLevel child of a named facade with fields.
C16_Witness ==
    \E j \in LoggerIds :
        /\ WithLevelChild(j)
        /\ loggers[hist[j].parent].name = "a"
        /\ loggers[hist[j].parent].core.fields = <<F2, F1>>
        /\ EmittedOn(j) /\ Len(out) = 1
        /\ Has(out[1], <<"logger", "a">>)
        /\ FieldSegments(out[1]) = <<F2, F1, F1, F2>>

(***************************************************************************)
(* C17: With and Named below a facade frozen by WithLevel(L) return        *)
(* facades frozen at L: whatever chain of With and Named leads down from   *)
(* the WithLevel child and whatever has been written to the shared holder, *)
(* the descendant accepts a record of level r iff r >= L, and an emit on   *)
(* it writes a line iff r >= L.                                            *)
(***************************************************************************)
\* Facade i is a WithLevel child or descends from one by With and Named.
RECURSIVE Frozen(_)
Frozen(i) ==
    /\ hist[i].parent # Nil
    /\ hist[i].op = "WithLevel" \/ Frozen(hist[i].parent)

\* The level of the nearest WithLevel derivation at or above a frozen
\* facade i; With and Named derivations are passed through.
RECURSIVE FrozenAt(_)
FrozenAt(i) ==
    IF hist[i].op = "WithLevel" THEN hist[i].level ELSE FrozenAt(hist[i].parent)

FrozenDescendant(i) ==
    /\ hist[i].op \in {"With", "Named"}
    /\ Frozen(i)
    /\ Writes(i)

C17_DescendantsStayFrozen ==
    \A i \in LoggerIds :
        FrozenDescendant(i) =>
            /\ \A r \in Levels : Accepts(i, r) <=> r >= FrozenAt(i)
            /\ EmittedOn(i) => (Len(out) = 1 <=> last.level >= FrozenAt(i))

\* Named below With below WithLevel(Info), the shared holder written to
\* Debug since: a Debug record on the descendant is dropped.
C17_Witness ==
    \E i \in LoggerIds :
        /\ hist[i].op = "Named"
        /\ hist[hist[i].parent].op = "With"
        /\ hist[hist[hist[i].parent].parent].op = "WithLevel"
        /\ Frozen(i)
        /\ FrozenAt(i) = InfoLevel
        /\ holders[SharedHolder] = DebugLevel
        /\ EmittedOn(i)
        /\ last.level = DebugLevel
        /\ out = <<>>

(***************************************************************************)
(* C18: the decision of an emit reads the shared holder when it is made:   *)
(* the holder holds its initial level or a level written to it, and a      *)
(* goroutine that decides on a facade bound to the shared holder accepts   *)
(* the record iff its level is at least what the holder holds at that      *)
(* step, that is the last write completed before the decision, and not     *)
(* what it held when the logger was built or when the emit began.          *)
(***************************************************************************)
C18_HeldLevels == holders[SharedHolder] \in {ErrorLevel} \cup ConcLevels

CheckStep(t) == threads[t].pc = "check" /\ threads'[t].pc # "check"

C18_ReadsAtDecision ==
    \A t \in Threads :
        CheckStep(t) /\ DynamicChain(threads[t].lg) =>
            /\ threads'[t].read = holders[SharedHolder]
            /\ threads'[t].pc = "encoded" <=>
                   threads[t].level >= holders[SharedHolder]
            /\ threads'[t].pc = "idle" <=>
                   threads[t].level < holders[SharedHolder]

C18_DecisionReadsHolder == [](C18_HeldLevels) /\ [][C18_ReadsAtDecision]_vars

\* An Info emit that began with the holder at Error and was accepted: the
\* holder was written to Debug before the decision.
C18_Witness ==
    \E t \in Threads :
        /\ threads[t].pc = "encoded"
        /\ threads[t].level = InfoLevel
        /\ threads[t].seen = ErrorLevel
        /\ threads[t].read = DebugLevel
        /\ holders[SharedHolder] = DebugLevel

(***************************************************************************)
(* C19: a line written by a facade that descends from NewProductionLogger, *)
(* WithLevel children included, has a stacktrace segment iff the level of  *)
(* the record is Error or above; a line at Debug, Info or Warn has none.   *)
(***************************************************************************)
C19_StacktraceFromError ==
    \A i \in LoggerIds :
        EmittedOn(i) /\ Len(out) = 1 =>
            /\ Count(out[1], "stacktrace") <= 1
            /\ Count(out[1], "stacktrace") = 1 <=> last.level >= ErrorLevel
            /\ Count(out[1], "stacktrace") = 1 => Last(out[1])[1] = "stacktrace"

\* An Error line with its stacktrace on a WithLevel child.
C19_Witness ==
    \E i \in LoggerIds :
        /\ hist[i].op = "WithLevel"
        /\ EmittedOn(i) /\ Len(out) = 1
        /\ last.level = ErrorLevel
        /\ Last(out[1]) = <<"stacktrace", "trace">>

(***************************************************************************)
(* C20: the fallback is looked up at each call.  A context without a       *)
(* facade resolves to the DefaultLogger of the moment, a context with a    *)
(* facade to the nearest facade attached; assigning DefaultLogger changes  *)
(* no context and no facade, so a context that Named, With or WithLevel    *)
(* made from a context without a facade keeps the child of the old         *)
(* DefaultLogger; and a call through a context goes to the facade the      *)
(* context resolves to now.                                                *)
(***************************************************************************)
AllCtxs == CtxIds \cup {Background}

RECURSIVE NearestAttached(_)
NearestAttached(c) ==
    IF ctxs[c].key = contextKeyLogger THEN ctxs[c].val
    ELSE NearestAttached(ctxs[c].parent)

Resolves(c) == IF NeverAttached(c) THEN defaultLogger ELSE NearestAttached(c)

C20_Lookup ==
    /\ \A c \in AllCtxs : getLogger(ctxs, defaultLogger, c) = Resolves(c)
    /\ last.op \in CtxOps /\ ~last.failed =>
           /\ last.lg = Resolves(last.ctx)
           /\ last.op \in CtxEmitOps =>
                  (Len(out) = 1 <=>
                       /\ Writes(Resolves(last.ctx))
                       /\ last.level >= SpecThreshold(Resolves(last.ctx)))

C20_Reassign ==
    defaultLogger' # defaultLogger =>
        /\ ctxs' = ctxs
        /\ loggers' = loggers
        /\ hist' = hist
        /\ \A c \in AllCtxs :
               IF NeverAttached(c)
               THEN getLogger(ctxs', defaultLogger', c) = defaultLogger'
               ELSE getLogger(ctxs', defaultLogger', c)
                        = getLogger(ctxs, defaultLogger, c)

C20_FallbackAtEachCall == [](C20_Lookup) /\ [][C20_Reassign]_vars

\* DefaultLogger has been assigned the production logger; an Error call
\* through a context that Named made earlier from the background context
\* still goes to the child of the discarding logger and writes nothing.
C20_Witness ==
    /\ defaultLogger = Production
    /\ last.op = "Error"
    /\ last.ctx # Background
    /\ ctxs[last.ctx].key = contextKeyLogger
    /\ hist[ctxs[last.ctx].val].op = "Named"
    /\ hist[ctxs[last.ctx].val].parent = 1
    /\ last.lg = ctxs[last.ctx].val
    /\ ErrorLevel >= holders[SharedHolder]
    /\ out = <<>>

====
